---- MODULE Spec2Model ----
(***************************************************************************)
(* Process-isolated transcription service: the pool coordinator            *)
(* (src/service/stt/process_service.py), the worker entry point            *)
(* (src/service/stt/process_worker.py) and the opaque recognition call     *)
(* (src/service/stt/service.py, _sync_transcribe_impl).                     *)
(* The resource monitor (src/core/process_metrics.py) and the metrics       *)
(* sampler (src/core/memory_collector.py) have specifications of their own, *)
(* MonitorSpec and CollectorSpec, over the variables call, collector,      *)
(* registered, gauges and serviceCached.                                   *)
(*                                                                         *)
(* Time is counted in ticks of one poll interval (100 ms).  Every timer is *)
(* a countdown: -1 = not armed, 0 = due, k > 0 = due in k ticks.           *)
(***************************************************************************)
EXTENDS Integers, Sequences, FiniteSets, TLC

\* ------------------------------------------------------------------ bounds
\* number of worker processes (self.pool_size)
PoolSize == 1
\* number of jobs that are submitted in a behaviour
MaxJobs == 2
\* inner deadline self.timeout, in ticks
Timeout == 2
\* safety margin of the outer deadline (self.timeout + 10), in ticks
Margin == 2
\* recycle quota (maxtasksperchild, 100 in the code)
MaxTasksPerChild == 2
\* timeout of shutdown(timeout), in ticks
ShutdownTimeout == 1
\* wait_timeout of restart_pool(wait_timeout), in ticks
RestartWait == 1
\* number of restart_pool calls in a behaviour
MaxRestarts == 1
\* number of worker processes killed from outside (OOM killer) in a behaviour
MaxKills == 1
\* saturation of the lateness of a submit (ticks it was due and not run)
MaxLate == 2
\* number of shutdown() calls of the application in a behaviour
MaxShutdowns == 1
\* number of child processes that one enumeration of the monitor returns
MaxChildren == 2
\* largest resident set size of one process, in units of memory
MaxRss == 2
\* largest cpu_percent of one process; more than 1 counts as working
MaxCpu == 2
\* interval of the metrics sampler (15 s), in ticks of the sampler
Interval == 2
\* first sleep of the metrics sampler (5 s), in ticks of the sampler
InitialWait == 1
\* number of sampler tasks that are created in a behaviour
MaxStarts == 2

Jobs == 1..MaxJobs
Slots == 1..PoolSize
NoJob == 0

VARIABLES
    loop,        \* what runs on the event-loop thread: "free", "restart_wait",
                 \* "restart_idle", "shutdown"
    opTimer,     \* countdown of the blocking operation that holds the loop
    restarting,  \* TRUE while shutdown() runs as part of restart_pool()
    poolState,   \* state of self.pool: "RUN", "CLOSE", "TERMINATE"
    gen,         \* how many times self.pool has been replaced
    cache,       \* self.pool._cache: jobs whose result is pending
    taskq,       \* tasks queued for dispatch (_taskqueue and _inqueue)
    outq,        \* results in transit from the workers (_outqueue)
    ready,       \* per job: the value of its result_async, or NotReady
    workers,     \* per slot: the worker process and its position
    nextPid,     \* next process identity
    procs,       \* identities of the worker processes that are alive
    sub,         \* per job: the process_audio call of that job
    fileExists,  \* per job: does its temporary input file exist
    kills,       \* number of workers killed from outside
    shutdowns,   \* number of shutdown() calls of the application
    runs,        \* per job: how many times a worker started to execute it
    call,        \* the last call of the resource monitor: what the OS
                 \* answered and what the function gave back
    collector,   \* per number: the task of the metrics sampler
    registered,  \* _memory_collector_task: number of the task, 0 for None
    gauges,      \* the snapshot the sampler published last, <<>> before
    serviceCached  \* get_process_service.cache_info().currsize > 0

poolVars == <<loop, opTimer, restarting, poolState, gen, cache, taskq, outq,
              ready, workers, nextPid, procs, sub, fileExists, kills,
              shutdowns, runs>>
metricsVars == <<call, collector, registered, gauges, serviceCached>>
vars == <<poolVars, metricsVars>>

\* ----------------------------------------------------------- result values
NotReady == [ok |-> FALSE, value |-> "NotReady"]

\* process_worker.py:146-154
SuccessResult(j) ==
    [success |-> TRUE,
     data |-> [segments |-> <<j>>, full_text |-> j,
               detected_language |-> "en-US", speaker_count |-> 1]]

\* (mutant) the failure dict also carries a data entry
FailureWithData(etype) ==
    [success |-> FALSE, error |-> "msg", error_type |-> etype,
     traceback |-> "trace", data |-> "none"]

\* process_worker.py:161-166 and 174-179
FailureResult(etype) ==
    [success |-> FALSE, error |-> "msg", error_type |-> etype,
     traceback |-> "trace"]

\* what Pool's worker loop sends for a call that returned v
Returned(v) == [ok |-> TRUE, value |-> v]
\* what Pool's worker loop sends for a call that raised e
Raised(e) == [ok |-> FALSE, value |-> e]

\* ---------------------------------------------------------------- workers
FreshWorker(pid) ==
    [pid |-> pid, pc |-> "idle", job |-> NoJob, done |-> 0, started |-> 0,
     alarm |-> -1, pend |-> "none", ret |-> NotReady, fired |-> NoJob,
     swallowed |-> FALSE]

Alive(s) == workers[s].pc \notin {"retired", "dead"}

\* no call of the monitor was made; no sampler task exists
NoCall == [fn |-> "none"]
NoTask == [pc |-> "none", timer |-> -1, cancel |-> FALSE, monitor |-> FALSE,
           last |-> "none"]

PoolInit ==
    /\ loop = "free"
    /\ opTimer = -1
    /\ restarting = FALSE
    /\ poolState = "RUN"
    /\ gen = 0
    /\ cache = {}
    /\ taskq = <<>>
    /\ outq = <<>>
    /\ ready = [j \in Jobs |-> NotReady]
    /\ workers = [s \in Slots |-> FreshWorker(s)]
    /\ nextPid = PoolSize + 1
    /\ procs = {workers[s].pid : s \in Slots}
    /\ sub = [j \in Jobs |-> [pc |-> "new", elapsed |-> 0, wake |-> -1,
                              late |-> 0, queued |-> FALSE, outcomes |-> <<>>]]
    /\ fileExists \in [Jobs -> BOOLEAN]
    /\ kills = 0
    /\ shutdowns = 0
    /\ runs = [j \in Jobs |-> 0]

\* the application after startup: the service is constructed and cached, the
\* monitor was not called yet, the sampler was not started
Init ==
    /\ PoolInit
    /\ call = NoCall
    /\ collector = [t \in 1..MaxStarts |-> NoTask]
    /\ registered = 0
    /\ gauges = <<>>
    /\ serviceCached = TRUE

\* ---------------------------------------------------------- worker process
\* (mutant) the quota test is off by one
FinishLate(s, msg, alarm) ==
    LET w == workers[s]
        n == w.done + 1
    IN  /\ outq' = Append(outq, [job |-> w.job, ok |-> msg.ok, value |-> msg.value])
        /\ workers' = [workers EXCEPT ![s] =
              [w EXCEPT !.pc = IF n > MaxTasksPerChild THEN "retired" ELSE "idle",
                        !.job = NoJob, !.done = n, !.pend = "none",
                        !.ret = NotReady, !.alarm = alarm,
                        !.swallowed = FALSE]]
        /\ procs' = IF n > MaxTasksPerChild THEN procs \ {w.pid} ELSE procs

\* Pool's worker loop after the task function ended with msg: the result is
\* put on the outqueue, completed += 1, and the process exits at the quota
Finish(s, msg, alarm) ==
    LET w == workers[s]
        n == w.done + 1
    IN  /\ outq' = Append(outq, [job |-> w.job, ok |-> msg.ok, value |-> msg.value])
        /\ workers' = [workers EXCEPT ![s] =
              [w EXCEPT !.pc = IF n >= MaxTasksPerChild THEN "retired" ELSE "idle",
                        !.job = NoJob, !.done = n, !.pend = "none",
                        !.ret = NotReady, !.alarm = alarm,
                        !.swallowed = FALSE]]
        /\ procs' = IF n >= MaxTasksPerChild THEN procs \ {w.pid} ELSE procs

\* the worker takes the next task; transcribe_in_process arms the alarm and
\* calls _sync_transcribe_impl, which is either interruptible by the signal
\* handler or stuck in native code
TakeTask(s) ==
    /\ workers[s].pc = "idle"
    /\ poolState # "TERMINATE"
    /\ taskq # <<>>
    /\ \E p \in {"call", "native"} :
          workers' = [workers EXCEPT ![s].pc = p, ![s].job = Head(taskq),
                                     ![s].started = @ + 1, ![s].alarm = Timeout]
    /\ taskq' = Tail(taskq)
    /\ runs' = [runs EXCEPT ![Head(taskq)] = @ + 1]
    /\ UNCHANGED <<metricsVars, loop, opTimer, restarting, poolState, gen, cache, outq, ready,
                   nextPid, procs, sub, fileExists, kills, shutdowns>>

\* the body of _sync_transcribe_impl reaches its return statement
CallReturns(s) ==
    /\ workers[s].pc = "call"
    /\ fileExists[workers[s].job]
    /\ workers' = [workers EXCEPT ![s].pc = "cleanup", ![s].pend = "ok"]
    /\ UNCHANGED <<metricsVars, loop, opTimer, restarting, poolState, gen, cache, taskq, outq,
                   ready, nextPid, procs, sub, fileExists, kills, shutdowns, runs>>

\* the body of _sync_transcribe_impl raises: TimeoutError from its own
\* done_event.wait(timeout=300), or any other exception
CallRaises(s) ==
    /\ workers[s].pc = "call"
    /\ \E e \in {"TimeoutError", "Exception"} :
          workers' = [workers EXCEPT ![s].pc = "cleanup", ![s].pend = e]
    /\ UNCHANGED <<metricsVars, loop, opTimer, restarting, poolState, gen, cache, taskq, outq,
                   ready, nextPid, procs, sub, fileExists, kills, shutdowns, runs>>

\* where control goes when the finally block of _sync_transcribe_impl ends
AfterCleanup(pend) ==
    CASE pend = "ok" -> "post"
      [] pend = "TimeoutError" -> "exc_timeout"
      [] OTHER -> "exc_other"

\* the finally block of _sync_transcribe_impl: deletes the input file
CleanupDone(s) ==
    /\ workers[s].pc = "cleanup"
    /\ workers' = [workers EXCEPT ![s].pc = AfterCleanup(workers[s].pend)]
    /\ fileExists' = [fileExists EXCEPT ![workers[s].job] = FALSE]
    /\ UNCHANGED <<metricsVars, loop, opTimer, restarting, poolState, gen, cache, taskq, outq,
                   ready, nextPid, procs, sub, kills, shutdowns, runs>>

\* segments are serialised, the alarm is cancelled, the success dict is built
PostDone(s) ==
    /\ workers[s].pc = "post"
    /\ workers' = [workers EXCEPT ![s].pc = "finally", ![s].alarm = -1,
                                  ![s].ret = Returned(SuccessResult(workers[s].job))]
    /\ UNCHANGED <<metricsVars, loop, opTimer, restarting, poolState, gen, cache, taskq, outq,
                   ready, nextPid, procs, sub, fileExists, kills, shutdowns, runs>>

\* except TimeoutError / except Exception: the failure dict is built
HandlerDone(s) ==
    /\ workers[s].pc \in {"exc_timeout", "exc_other"}
    /\ workers' = [workers EXCEPT ![s].pc = "finally",
          ![s].ret = Returned(FailureResult(
              IF workers[s].pc = "exc_timeout" THEN "TimeoutError" ELSE "Exception"))]
    /\ UNCHANGED <<metricsVars, loop, opTimer, restarting, poolState, gen, cache, taskq, outq,
                   ready, nextPid, procs, sub, fileExists, kills, shutdowns, runs>>

\* the final logging block ends and the function returns
FinallyDone(s) ==
    /\ workers[s].pc = "finally"
    /\ Finish(s, workers[s].ret, workers[s].alarm)
    /\ UNCHANGED <<metricsVars, loop, opTimer, restarting, poolState, gen, cache, taskq,
                   ready, nextPid, sub, fileExists, kills, shutdowns, runs>>

\* ---- SIGALRM: timeout_handler raises TimeoutError where the worker is
AlarmDue(s) == Alive(s) /\ workers[s].alarm = 0

\* in the body of _sync_transcribe_impl: its finally block runs next
\* (fired remembers the job whose call the handler interrupted)
AlarmInCall(s) ==
    /\ AlarmDue(s) /\ workers[s].pc = "call"
    /\ workers' = [workers EXCEPT ![s].pc = "cleanup", ![s].alarm = -1,
                                  ![s].pend = "TimeoutError",
                                  ![s].fired = workers[s].job]
    /\ UNCHANGED <<metricsVars, loop, opTimer, restarting, poolState, gen, cache, taskq, outq,
                   ready, nextPid, procs, sub, fileExists, kills, shutdowns, runs>>

\* in the finally block of _sync_transcribe_impl, inside one of its
\* try/except Exception blocks: the TimeoutError is swallowed there
AlarmInCleanupSwallowed(s) ==
    /\ AlarmDue(s) /\ workers[s].pc = "cleanup"
    /\ workers' = [workers EXCEPT ![s].alarm = -1, ![s].swallowed = TRUE]
    /\ UNCHANGED <<metricsVars, loop, opTimer, restarting, poolState, gen, cache, taskq, outq,
                   ready, nextPid, procs, sub, fileExists, kills, shutdowns, runs>>

\* in the finally block of _sync_transcribe_impl, outside its try blocks:
\* the TimeoutError replaces whatever the body returned or raised
AlarmInCleanupRaised(s) ==
    /\ AlarmDue(s) /\ workers[s].pc = "cleanup"
    /\ workers' = [workers EXCEPT ![s].pc = "exc_timeout", ![s].alarm = -1,
                                  ![s].pend = "TimeoutError"]
    /\ \E deleted \in BOOLEAN :
          fileExists' = [fileExists EXCEPT ![workers[s].job] = @ /\ ~deleted]
    /\ UNCHANGED <<metricsVars, loop, opTimer, restarting, poolState, gen, cache, taskq, outq,
                   ready, nextPid, procs, sub, kills, shutdowns, runs>>

\* while the segments are serialised: except TimeoutError catches it
AlarmInPost(s) ==
    /\ AlarmDue(s) /\ workers[s].pc = "post"
    /\ workers' = [workers EXCEPT ![s].pc = "exc_timeout", ![s].alarm = -1,
                                  ![s].pend = "TimeoutError"]
    /\ UNCHANGED <<metricsVars, loop, opTimer, restarting, poolState, gen, cache, taskq, outq,
                   ready, nextPid, procs, sub, fileExists, kills, shutdowns, runs>>

\* inside an except handler: the new TimeoutError leaves the try statement
AlarmInHandler(s) ==
    /\ AlarmDue(s) /\ workers[s].pc \in {"exc_timeout", "exc_other"}
    /\ workers' = [workers EXCEPT ![s].pc = "finally", ![s].alarm = -1,
                                  ![s].ret = Raised("TimeoutError")]
    /\ UNCHANGED <<metricsVars, loop, opTimer, restarting, poolState, gen, cache, taskq, outq,
                   ready, nextPid, procs, sub, fileExists, kills, shutdowns, runs>>

\* inside the final logging block: the TimeoutError replaces the return value
AlarmInFinally(s) ==
    /\ AlarmDue(s) /\ workers[s].pc = "finally"
    /\ Finish(s, Raised("TimeoutError"), -1)
    /\ UNCHANGED <<metricsVars, loop, opTimer, restarting, poolState, gen, cache, taskq,
                   ready, nextPid, sub, fileExists, kills, shutdowns, runs>>

\* between two tasks, in the get() of Pool's worker loop: TimeoutError is an
\* OSError, the loop treats it as a closed queue and the process exits
AlarmInIdle(s) ==
    /\ AlarmDue(s) /\ workers[s].pc = "idle"
    /\ workers' = [workers EXCEPT ![s].pc = "dead", ![s].alarm = -1]
    /\ procs' = procs \ {workers[s].pid}
    /\ UNCHANGED <<metricsVars, loop, opTimer, restarting, poolState, gen, cache, taskq, outq,
                   ready, nextPid, sub, fileExists, kills, shutdowns, runs>>

AlarmFires(s) ==
    \/ AlarmInCall(s) \/ AlarmInCleanupSwallowed(s)
    \/ AlarmInCleanupRaised(s) \/ AlarmInPost(s) \/ AlarmInHandler(s)
    \/ AlarmInFinally(s) \/ AlarmInIdle(s)

\* (mutant) the job of a killed worker is put back on the task queue
KillWorkerRequeue(s) ==
    /\ kills < MaxKills
    /\ Alive(s) /\ workers[s].job # NoJob
    /\ workers' = [workers EXCEPT ![s].pc = "dead", ![s].job = NoJob]
    /\ taskq' = Append(taskq, workers[s].job)
    /\ procs' = procs \ {workers[s].pid}
    /\ kills' = kills + 1
    /\ UNCHANGED <<metricsVars, loop, opTimer, restarting, poolState, gen, cache, outq,
                   ready, nextPid, sub, fileExists, shutdowns, runs>>

\* the worker process is killed from outside while it executes a job
KillWorker(s) ==
    /\ kills < MaxKills
    /\ Alive(s) /\ workers[s].job # NoJob
    /\ workers' = [workers EXCEPT ![s].pc = "dead", ![s].job = NoJob]
    /\ procs' = procs \ {workers[s].pid}
    /\ kills' = kills + 1
    /\ UNCHANGED <<metricsVars, loop, opTimer, restarting, poolState, gen, cache, taskq, outq,
                   ready, nextPid, sub, fileExists, shutdowns, runs>>

\* ------------------------------------------------------ Pool's own threads
\* (mutant) _handle_results stores a result in the oldest pending ApplyResult
HandleResultOldest ==
    LET target == IF cache = {} THEN Head(outq).job
                  ELSE CHOOSE k \in cache : \A m \in cache : k <= m
    IN  /\ outq # <<>>
        /\ ready' = [ready EXCEPT ![target] =
                        [ok |-> Head(outq).ok, value |-> Head(outq).value]]
        /\ cache' = cache \ {target}
        /\ outq' = Tail(outq)
        /\ UNCHANGED <<metricsVars, loop, opTimer, restarting, poolState, gen, taskq,
                       workers, nextPid, procs, sub, fileExists, kills, shutdowns, runs>>

\* _handle_results: the result is stored in its ApplyResult, which removes
\* itself from _cache
HandleResult ==
    /\ outq # <<>>
    /\ ready' = [ready EXCEPT ![Head(outq).job] =
                    [ok |-> Head(outq).ok, value |-> Head(outq).value]]
    /\ cache' = cache \ {Head(outq).job}
    /\ outq' = Tail(outq)
    /\ UNCHANGED <<metricsVars, loop, opTimer, restarting, poolState, gen, taskq, workers,
                   nextPid, procs, sub, fileExists, kills, shutdowns, runs>>

\* _handle_workers / _maintain_pool: an exited worker is replaced while the
\* pool runs, or while it is closed with results still pending
Repopulate(s) ==
    /\ ~Alive(s)
    /\ poolState = "RUN" \/ (poolState = "CLOSE" /\ cache # {})
    /\ workers' = [workers EXCEPT ![s] = FreshWorker(nextPid)]
    /\ nextPid' = nextPid + 1
    /\ procs' = procs \cup {nextPid}
    /\ UNCHANGED <<metricsVars, loop, opTimer, restarting, poolState, gen, cache, taskq, outq,
                   ready, sub, fileExists, kills, shutdowns, runs>>

\* ------------------------------------------------- coordinator: submit
\* number of polls of the outer deadline: timeout_seconds / poll_interval
OuterPolls == Timeout + Margin

Response(text) == [kind |-> "Response", status |-> 200, detail |-> text]
HTTPException(status, detail) ==
    [kind |-> "HTTPException", status |-> status, detail |-> detail]
AudioFormatError == [kind |-> "AudioFormatError", status |-> 0, detail |-> "not found"]

\* (mutant) a worker failure of type TimeoutError is reported like any other
ProcessResultNoTimeout(r) ==
    IF ~r.ok THEN HTTPException(500, "parent")
    ELSE IF ~r.value.success
         THEN HTTPException(500, "worker")
         ELSE Response(r.value.data.full_text)

\* what process_audio does with the value of result_async.get(): get()
\* re-raises an exception of the worker (caught by except Exception), a
\* failure dict becomes 504 or 500, a success dict becomes the response
ProcessResult(r) ==
    IF ~r.ok THEN HTTPException(500, "parent")
    ELSE IF ~r.value.success
         THEN IF r.value.error_type = "TimeoutError"
              THEN HTTPException(504, "worker")
              ELSE HTTPException(500, "worker")
         ELSE Response(r.value.data.full_text)

\* (mutant) the handler of unexpected errors logs and does not raise
EndSubmitSwallow(j, outcome) ==
    /\ sub' = [sub EXCEPT ![j].pc = "done", ![j].wake = -1, ![j].elapsed = 0,
                          ![j].outcomes = IF outcome.status = 500 THEN @
                                          ELSE Append(@, outcome)]
    /\ fileExists' = [fileExists EXCEPT ![j] = FALSE]

\* process_audio ends inside its try statement: the outcome goes to the
\* caller and the finally clause unlinks the input file
EndSubmit(j, outcome) ==
    /\ sub' = [sub EXCEPT ![j].pc = "done", ![j].wake = -1, ![j].elapsed = 0,
                          ![j].outcomes = Append(@, outcome)]
    /\ fileExists' = [fileExists EXCEPT ![j] = FALSE]

\* (mutant) process_audio waits for the result with a blocking get()
SubmitBlocking(j) ==
    /\ loop = "free"
    /\ sub[j].pc = "new"
    /\ j > 1 => sub[j - 1].pc # "new"
    /\ fileExists[j] /\ poolState = "RUN"
    /\ cache' = cache \cup {j}
    /\ taskq' = Append(taskq, j)
    /\ sub' = [sub EXCEPT ![j].pc = "sleep", ![j].wake = 1, ![j].elapsed = 0]
    /\ loop' = "submit"
    /\ UNCHANGED <<metricsVars, opTimer, restarting, poolState, gen, outq, ready, workers,
                   nextPid, procs, fileExists, kills, shutdowns, runs>>

\* (mutant) process_audio does not check that the input file exists
SubmitNoCheck(j) ==
    /\ loop = "free"
    /\ sub[j].pc = "new"
    /\ j > 1 => sub[j - 1].pc # "new"
    /\ IF poolState # "RUN"
       THEN /\ EndSubmit(j, HTTPException(500, "parent"))
            /\ UNCHANGED <<cache, taskq>>
       ELSE /\ cache' = cache \cup {j}
            /\ taskq' = Append(taskq, j)
            /\ sub' = [sub EXCEPT ![j].pc = "sleep", ![j].wake = 1,
                                  ![j].elapsed = 0]
            /\ UNCHANGED fileExists
    /\ UNCHANGED <<metricsVars, loop, opTimer, restarting, poolState, gen, outq, ready,
                   workers, nextPid, procs, kills, shutdowns, runs>>

\* process_audio up to its first await; the jobs are numbered in the order in
\* which they are submitted
Submit(j) ==
    /\ loop = "free"
    /\ sub[j].pc = "new"
    /\ j > 1 => sub[j - 1].pc # "new"
    /\ IF ~fileExists[j]
       THEN /\ sub' = [sub EXCEPT ![j].pc = "done",
                                  ![j].outcomes = Append(@, AudioFormatError)]
            /\ UNCHANGED <<cache, taskq, fileExists>>
       ELSE IF poolState # "RUN"
       THEN /\ EndSubmit(j, HTTPException(500, "parent"))
            /\ UNCHANGED <<cache, taskq>>
       ELSE /\ cache' = cache \cup {j}
            /\ taskq' = Append(taskq, j)
            /\ sub' = [sub EXCEPT ![j].pc = "sleep", ![j].wake = 1,
                                  ![j].elapsed = 0]
            /\ UNCHANGED fileExists
    /\ UNCHANGED <<metricsVars, loop, opTimer, restarting, poolState, gen, outq, ready,
                   workers, nextPid, procs, kills, shutdowns, runs>>

\* (mutant) a submit whose outer deadline expires queues its job again
PollRetry(j) ==
    /\ loop = "free"
    /\ sub[j].pc = "sleep" /\ sub[j].wake = 0
    /\ LET e == sub[j].elapsed + 1
       IN  IF e < OuterPolls
           THEN /\ IF ready[j] # NotReady
                   THEN EndSubmit(j, ProcessResult(ready[j]))
                   ELSE /\ sub' = [sub EXCEPT ![j].elapsed = e, ![j].wake = 1]
                        /\ UNCHANGED fileExists
                /\ UNCHANGED taskq
           ELSE /\ EndSubmit(j, HTTPException(504, "outer"))
                /\ taskq' = Append(taskq, j)
    /\ UNCHANGED <<metricsVars, loop, opTimer, restarting, poolState, gen, cache, outq,
                   ready, workers, nextPid, procs, kills, shutdowns, runs>>

\* (mutant) the poll loop has no outer deadline
PollNoDeadline(j) ==
    /\ loop = "free"
    /\ sub[j].pc = "sleep" /\ sub[j].wake = 0
    /\ IF ready[j] # NotReady
       THEN EndSubmit(j, ProcessResult(ready[j]))
       ELSE /\ sub' = [sub EXCEPT ![j].wake = 1]
            /\ UNCHANGED fileExists
    /\ UNCHANGED <<metricsVars, loop, opTimer, restarting, poolState, gen, cache, taskq, outq,
                   ready, workers, nextPid, procs, kills, shutdowns, runs>>

\* (mutant) a poll that finds its pool gone gives up with an internal error
PollChecksPool(j) ==
    /\ loop = "free"
    /\ sub[j].pc = "sleep" /\ sub[j].wake = 0
    /\ LET e == sub[j].elapsed + 1
       IN  IF ready[j] = NotReady /\ (j \notin cache \/ poolState = "TERMINATE")
           THEN EndSubmit(j, HTTPException(500, "parent"))
           ELSE IF e < OuterPolls
           THEN IF ready[j] # NotReady
                THEN EndSubmit(j, ProcessResult(ready[j]))
                ELSE /\ sub' = [sub EXCEPT ![j].elapsed = e, ![j].wake = 1]
                     /\ UNCHANGED fileExists
           ELSE EndSubmit(j, HTTPException(504, "outer"))
    /\ UNCHANGED <<metricsVars, loop, opTimer, restarting, poolState, gen, cache, taskq, outq,
                   ready, workers, nextPid, procs, kills, shutdowns, runs>>

\* process_audio resumes from asyncio.sleep(poll_interval)
Poll(j) ==
    /\ loop = "free"
    /\ sub[j].pc = "sleep" /\ sub[j].wake = 0
    /\ LET e == sub[j].elapsed + 1
       IN  IF e < OuterPolls
           THEN IF ready[j] # NotReady
                THEN EndSubmit(j, ProcessResult(ready[j]))
                ELSE /\ sub' = [sub EXCEPT ![j].elapsed = e, ![j].wake = 1]
                     /\ UNCHANGED fileExists
           ELSE EndSubmit(j, HTTPException(504, "outer"))
    /\ UNCHANGED <<metricsVars, loop, opTimer, restarting, poolState, gen, cache, taskq, outq,
                   ready, workers, nextPid, procs, kills, shutdowns, runs>>

\* --------------------------------------- coordinator: idle, restart, shutdown
\* a worker that is computing (not waiting for a task or for the network)
Hot(s) == Alive(s) /\ workers[s].pc \notin {"idle", "call", "native"}

\* (mutant) is_pool_idle looks at the CPU of the workers only
IsPoolIdleCpuOnly == \A s \in Slots : ~Hot(s)

\* is_pool_idle(): checks 1 to 5 on the current pool
IsPoolIdle ==
    /\ cache = {}
    /\ taskq = <<>>
    /\ outq = <<>>
    /\ \A s \in Slots : ~Hot(s)

\* (mutant) shutdown waits for the workers without closing the pool
BeginShutdownNoClose(fromRestart) ==
    /\ poolState' = poolState
    /\ loop' = "shutdown"
    /\ opTimer' = ShutdownTimeout
    /\ restarting' = fromRestart

\* shutdown(timeout) is called on the event-loop thread: pool.close()
BeginShutdown(fromRestart) ==
    /\ poolState' = IF poolState = "RUN" THEN "CLOSE" ELSE poolState
    /\ loop' = "shutdown"
    /\ opTimer' = ShutdownTimeout
    /\ restarting' = fromRestart

ShutdownCall ==
    /\ loop = "free"
    /\ shutdowns < MaxShutdowns
    /\ shutdowns' = shutdowns + 1
    /\ BeginShutdown(FALSE)
    /\ UNCHANGED <<metricsVars, gen, cache, taskq, outq, ready, workers, nextPid, procs, sub,
                   fileExists, kills, runs>>

Exited(w) == [w EXCEPT !.pc = "dead", !.job = NoJob, !.alarm = -1]

\* shutdown() returns; inside restart_pool the new Pool is created next
EndShutdown(state) ==
    /\ loop' = "free"
    /\ opTimer' = -1
    /\ restarting' = FALSE
    /\ taskq' = <<>>
    /\ outq' = <<>>
    /\ IF restarting
       THEN /\ poolState' = "RUN"
            /\ gen' = gen + 1
            /\ cache' = {}
            /\ workers' = [s \in Slots |-> FreshWorker(nextPid + s - 1)]
            /\ nextPid' = nextPid + PoolSize
            /\ procs' = {nextPid + s - 1 : s \in Slots}
       ELSE /\ poolState' = state
            /\ workers' = [s \in Slots |-> Exited(workers[s])]
            /\ procs' = {}
            /\ UNCHANGED <<gen, cache, nextPid>>

\* (mutant) shutdown joins the pool without looking at the pending results
ShutdownEager ==
    /\ loop = "shutdown"
    /\ EndShutdown(poolState)
    /\ UNCHANGED <<metricsVars, ready, sub, fileExists, kills, shutdowns, runs>>

\* no result is pending: pool.join()
ShutdownGraceful ==
    /\ loop = "shutdown"
    /\ cache = {}
    /\ EndShutdown(poolState)
    /\ UNCHANGED <<metricsVars, ready, sub, fileExists, kills, shutdowns, runs>>

\* (mutant) shutdown has no forced path: it waits until nothing is pending
ShutdownWaitsForever ==
    /\ loop = "shutdown"
    /\ cache = {}
    /\ opTimer = 0
    /\ EndShutdown("TERMINATE")
    /\ UNCHANGED <<metricsVars, ready, sub, fileExists, kills, shutdowns, runs>>

\* results are still pending at the deadline: pool.terminate(), pool.join()
ShutdownForced ==
    /\ loop = "shutdown"
    /\ cache # {}
    /\ opTimer = 0
    /\ EndShutdown("TERMINATE")
    /\ UNCHANGED <<metricsVars, ready, sub, fileExists, kills, shutdowns, runs>>

\* restart_pool(wait_timeout) is called on the event-loop thread
RestartCall ==
    /\ loop = "free"
    /\ gen < MaxRestarts
    /\ loop' = "restart_wait"
    /\ opTimer' = RestartWait
    /\ UNCHANGED <<metricsVars, restarting, poolState, gen, cache, taskq, outq, ready,
                   workers, nextPid, procs, sub, fileExists, kills, shutdowns, runs>>

\* (mutant) restart_if_idle restarts the pool without asking is_pool_idle
RestartIfIdleAlways ==
    /\ loop = "free"
    /\ gen < MaxRestarts
    /\ loop' = "restart_idle"
    /\ opTimer' = RestartWait
    /\ UNCHANGED <<metricsVars, restarting, poolState, gen, cache, taskq, outq, ready,
                   workers, nextPid, procs, sub, fileExists, kills, shutdowns, runs>>

\* restart_if_idle() is called on the event-loop thread: on an idle pool it
\* calls restart_pool(wait_timeout=5), on a busy pool it returns False
RestartIfIdleCall ==
    /\ loop = "free"
    /\ gen < MaxRestarts
    /\ IF IsPoolIdle
       THEN /\ loop' = "restart_idle"
            /\ opTimer' = RestartWait
       ELSE UNCHANGED <<loop, opTimer>>
    /\ UNCHANGED <<metricsVars, restarting, poolState, gen, cache, taskq, outq, ready,
                   workers, nextPid, procs, sub, fileExists, kills, shutdowns, runs>>

\* the loop thread is inside the wait loop of restart_pool, called directly
\* or from restart_if_idle
RestartWaits == {"restart_wait", "restart_idle"}

\* (mutant) restart_pool shuts the pool down without waiting for idle
RestartProceedNoWait ==
    /\ loop \in RestartWaits
    /\ BeginShutdown(TRUE)
    /\ UNCHANGED <<metricsVars, gen, cache, taskq, outq, ready, workers, nextPid, procs, sub,
                   fileExists, kills, shutdowns, runs>>

\* the wait loop of restart_pool ends (idle, or wait_timeout passed)
RestartProceed ==
    /\ loop \in RestartWaits
    /\ IsPoolIdle \/ opTimer = 0
    /\ BeginShutdown(TRUE)
    /\ UNCHANGED <<metricsVars, gen, cache, taskq, outq, ready, workers, nextPid, procs, sub,
                   fileExists, kills, shutdowns, runs>>

\* ------------------------------------------------------------------- time
InQueue(j) == \E i \in DOMAIN taskq : taskq[i] = j

\* a worker that waits: for a task, or inside the recognition call
Waiting(s) == workers[s].pc \in {"idle", "call", "native", "retired", "dead"}

\* something is due now and happens before the clock advances: a signal
\* handler, a step of a worker outside the recognition call, an idle worker
\* taking a queued task, a step of
\* Pool's handler threads, a wake-up on the free event loop, the end of the
\* wait of the blocking operation that holds the loop
Urgent ==
    \/ \E s \in Slots : AlarmDue(s) /\ workers[s].pc # "native"
    \/ \E s \in Slots : ~Waiting(s)
    \/ \E s \in Slots : ENABLED TakeTask(s)
    \/ outq # <<>>
    \/ \E s \in Slots : ENABLED Repopulate(s)
    \/ loop = "free" /\ \E j \in Jobs : sub[j].pc = "sleep" /\ sub[j].wake = 0
    \/ loop = "shutdown" /\ (cache = {} \/ opTimer = 0)
    \/ loop \in RestartWaits /\ (IsPoolIdle \/ opTimer = 0)

Down(t) == IF t > 0 THEN t - 1 ELSE t

\* one poll interval passes
Tick ==
    /\ ~Urgent
    /\ sub' = [j \in Jobs |->
                 IF sub[j].pc = "sleep"
                 THEN [sub[j] EXCEPT !.wake = Down(@),
                          !.late = IF sub[j].wake = 0 /\ @ < MaxLate THEN @ + 1 ELSE @,
                          !.queued = @ \/ InQueue(j)]
                 ELSE sub[j]]
    /\ workers' = [s \in Slots |-> [workers[s] EXCEPT !.alarm = Down(@)]]
    /\ opTimer' = Down(opTimer)
    /\ UNCHANGED <<metricsVars, loop, restarting, poolState, gen, cache, taskq, outq, ready,
                   nextPid, procs, fileExists, kills, shutdowns, runs>>

Worker(s) ==
    \/ TakeTask(s) \/ CallReturns(s) \/ CallRaises(s)
    \/ CleanupDone(s) \/ PostDone(s) \/ HandlerDone(s) \/ FinallyDone(s)
    \/ AlarmFires(s) \/ KillWorker(s)

Next ==
    \/ \E s \in Slots : Worker(s) \/ Repopulate(s)
    \/ HandleResult
    \/ \E j \in Jobs : Submit(j) \/ Poll(j)
    \/ ShutdownCall \/ ShutdownGraceful \/ ShutdownForced
    \/ RestartCall \/ RestartIfIdleCall \/ RestartProceed
    \/ Tick

Spec == Init /\ [][Next]_vars

\* What the scheduling guarantees: time passes; the event loop resumes a task
\* whose sleep is over; a worker outside the recognition call runs on; the
\* kernel delivers a due SIGALRM; Pool's handler threads run; the wait loops
\* of shutdown and restart_pool end at their deadlines.  Nothing makes the
\* recognition call end, a job arrive, or a restart or shutdown be requested.
Fairness ==
    /\ WF_vars(Tick)
    /\ \A j \in Jobs : WF_vars(Poll(j))
    /\ \A s \in Slots :
          /\ WF_vars(TakeTask(s)) /\ WF_vars(CleanupDone(s)) /\ WF_vars(PostDone(s))
          /\ WF_vars(HandlerDone(s)) /\ WF_vars(FinallyDone(s))
          /\ WF_vars(AlarmFires(s)) /\ WF_vars(Repopulate(s))
    /\ WF_vars(HandleResult)
    /\ WF_vars(ShutdownGraceful) /\ WF_vars(ShutdownForced)
    /\ WF_vars(RestartProceed)

LiveSpec == Spec /\ Fairness

\* ======================================================= resource monitor
\* (src/core/process_metrics.py) and is_pool_idle as a function of what its
\* checks observe.  A query of the OS answers with Returned(value) or with
\* Raised(error); a child that is_running() filters out is NotRunning.
PsutilErrors == {"NoSuchProcess", "AccessDenied"}
QueryErrors == PsutilErrors \cup {"OSError"}
NotRunning == [ok |-> FALSE, value |-> "NotRunning"]

\* the answers of memory_info().rss and of cpu_percent() for one process
RssOutcomes == {Returned(v) : v \in 1..MaxRss} \cup {Raised(e) : e \in QueryErrors}
CpuOutcomes == {Returned(v) : v \in 0..MaxCpu} \cup {Raised(e) : e \in QueryErrors}

\* the answers of parent_process.children(recursive=False): a list of
\* children, each with the answer its later query will give, or an error
Enumerations(outcomes) ==
    {Returned(l) : l \in UNION {[1..n -> outcomes \cup {NotRunning}] :
                                   n \in 0..MaxChildren}}
        \cup {Raised(e) : e \in QueryErrors}

\* what a function of the monitor gives back: a value or an exception, and
\* the levels of the log records it wrote
Gives(value, log) == [ok |-> TRUE, value |-> value, log |-> log]
Throws(error, log) == [ok |-> FALSE, value |-> error, log |-> log]

RECURSIVE GCD(_, _)
GCD(a, b) == IF b = 0 THEN a ELSE GCD(b, a % b)

\* the quotient n / d of the true division, as a fraction in lowest terms
Ratio(n, d) == [num |-> n \div GCD(n, d), den |-> d \div GCD(n, d)]

\* get_worker_processes(): the running children; [] with a warning on a
\* psutil error; any other exception propagates
get_worker_processes(children) ==
    IF children.ok
    THEN Gives(SelectSeq(children.value, LAMBDA c : c # NotRunning), <<>>)
    ELSE IF children.value \in PsutilErrors
         THEN Gives(<<>>, <<"warning">>)
         ELSE Throws(children.value, <<>>)

\* the loop over the workers: a psutil error skips the worker, any other
\* exception leaves the loop
RECURSIVE SumWorkers(_)
SumWorkers(ws) ==
    IF ws = <<>> THEN Returned(0)
    ELSE LET w == Head(ws)
         IN  IF ~w.ok /\ w.value \notin PsutilErrors THEN Raised(w.value)
             ELSE LET rest == SumWorkers(Tail(ws))
                  IN  IF ~rest.ok THEN rest
                      ELSE Returned(rest.value + (IF w.ok THEN w.value ELSE 0))

MemorySnapshot(parent, sum, count, avg) ==
    [total_rss_bytes |-> parent + sum, parent_rss_bytes |-> parent,
     workers_rss_bytes |-> sum, worker_count |-> count,
     per_worker_avg_bytes |-> avg]

ZeroMemory == MemorySnapshot(0, 0, 0, Ratio(0, 1))

\* (mutant) the average is taken over the workers that answered the query
get_aggregate_memory_usage_answered(parent, children) ==
    IF ~parent.ok
    THEN IF parent.value \in PsutilErrors
         THEN Gives(ZeroMemory, <<"error">>)
         ELSE Throws(parent.value, <<>>)
    ELSE LET ws == get_worker_processes(children)
         IN  IF ~ws.ok THEN ws
             ELSE LET sum == SumWorkers(ws.value)
                      answered == Len(SelectSeq(ws.value, LAMBDA w : w.ok))
                  IN  IF ~sum.ok THEN Throws(sum.value, ws.log)
                      ELSE Gives(MemorySnapshot(parent.value, sum.value,
                                     Len(ws.value),
                                     IF answered > 0
                                     THEN Ratio(sum.value, answered)
                                     ELSE Ratio(0, 1)),
                                 ws.log)

\* get_aggregate_memory_usage()
get_aggregate_memory_usage(parent, children) ==
    IF ~parent.ok
    THEN IF parent.value \in PsutilErrors
         THEN Gives(ZeroMemory, <<"error">>)
         ELSE Throws(parent.value, <<>>)
    ELSE LET ws == get_worker_processes(children)
         IN  IF ~ws.ok THEN ws
             ELSE LET sum == SumWorkers(ws.value)
                  IN  IF ~sum.ok THEN Throws(sum.value, ws.log)
                      ELSE Gives(MemorySnapshot(parent.value, sum.value,
                                     Len(ws.value),
                                     IF Len(ws.value) > 0
                                     THEN Ratio(sum.value, Len(ws.value))
                                     ELSE Ratio(0, 1)),
                                 ws.log)

CpuSnapshot(parent, sum, count) ==
    [total_cpu_percent |-> parent + sum, parent_cpu_percent |-> parent,
     workers_cpu_percent |-> sum, worker_count |-> count]

ZeroCpu == CpuSnapshot(0, 0, 0)

\* get_aggregate_cpu_usage()
get_aggregate_cpu_usage(parent, children) ==
    IF ~parent.ok
    THEN IF parent.value \in PsutilErrors
         THEN Gives(ZeroCpu, <<"error">>)
         ELSE Throws(parent.value, <<>>)
    ELSE LET ws == get_worker_processes(children)
         IN  IF ~ws.ok THEN ws
             ELSE LET sum == SumWorkers(ws.value)
                  IN  IF ~sum.ok THEN Throws(sum.value, ws.log)
                      ELSE Gives(CpuSnapshot(parent.value, sum.value,
                                             Len(ws.value)),
                                 ws.log)

\* what one of the checks 1 to 4 of is_pool_idle observes: something is
\* there (TRUE), nothing is there (FALSE), or the check raises
CheckOutcomes ==
    {Returned(b) : b \in BOOLEAN} \cup {Raised(e) : e \in {"OSError", "Exception"}}

\* check 5: the first worker that decides ends the loop: "busy" for more
\* than 1 % CPU, "error" for an exception other than the two psutil errors
RECURSIVE CpuCheck(_)
CpuCheck(ws) ==
    IF ws = <<>> THEN "idle"
    ELSE LET w == Head(ws)
         IN  IF w.ok THEN IF w.value > 1 THEN "busy" ELSE CpuCheck(Tail(ws))
             ELSE IF w.value \in PsutilErrors THEN CpuCheck(Tail(ws))
             ELSE "error"

\* (mutant) an unexpected exception in is_pool_idle is logged and the pool
\* is reported idle
is_pool_idle_optimistic(o) ==
    IF ~o.cache.ok \/ ~o.taskqueue.ok THEN Gives(TRUE, <<"error">>)
    ELSE IF o.cache.value \/ o.taskqueue.value THEN Gives(FALSE, <<>>)
    ELSE IF o.inqueue = Raised("Exception") THEN Gives(TRUE, <<"error">>)
    ELSE IF o.inqueue = Returned(TRUE) THEN Gives(FALSE, <<>>)
    ELSE IF o.outqueue = Raised("Exception") THEN Gives(TRUE, <<"error">>)
    ELSE IF o.outqueue = Returned(TRUE) THEN Gives(FALSE, <<>>)
    ELSE LET ws == get_worker_processes(o.children)
         IN  IF ~ws.ok THEN Gives(TRUE, <<"error">>)
             ELSE CASE CpuCheck(ws.value) = "busy" -> Gives(FALSE, ws.log)
                    [] CpuCheck(ws.value) = "error" ->
                           Gives(TRUE, ws.log \o <<"error">>)
                    [] OTHER -> Gives(TRUE, ws.log)

\* is_pool_idle() as a function of what its five checks observe: checks 3
\* and 4 pass over OSError / AttributeError, every other exception reaches
\* the outer handler
is_pool_idle(o) ==
    IF ~o.cache.ok \/ ~o.taskqueue.ok THEN Gives(FALSE, <<"error">>)
    ELSE IF o.cache.value \/ o.taskqueue.value THEN Gives(FALSE, <<>>)
    ELSE IF o.inqueue = Raised("Exception") THEN Gives(FALSE, <<"error">>)
    ELSE IF o.inqueue = Returned(TRUE) THEN Gives(FALSE, <<>>)
    ELSE IF o.outqueue = Raised("Exception") THEN Gives(FALSE, <<"error">>)
    ELSE IF o.outqueue = Returned(TRUE) THEN Gives(FALSE, <<>>)
    ELSE LET ws == get_worker_processes(o.children)
         IN  IF ~ws.ok THEN Gives(FALSE, <<"error">>)
             ELSE CASE CpuCheck(ws.value) = "busy" -> Gives(FALSE, ws.log)
                    [] CpuCheck(ws.value) = "error" ->
                           Gives(FALSE, ws.log \o <<"error">>)
                    [] OTHER -> Gives(TRUE, ws.log)

\* what is_pool_idle can observe
Observations ==
    [cache : CheckOutcomes, taskqueue : CheckOutcomes, inqueue : CheckOutcomes,
     outqueue : CheckOutcomes, children : Enumerations(CpuOutcomes)]

\* ---- the monitor is called: the OS answers, the result is recorded
MemoryCall ==
    /\ call = NoCall
    /\ \E parent \in RssOutcomes, children \in Enumerations(RssOutcomes) :
          call' = [fn |-> "get_aggregate_memory_usage", parent |-> parent,
                   children |-> children,
                   result |-> get_aggregate_memory_usage(parent, children)]
    /\ UNCHANGED <<poolVars, collector, registered, gauges, serviceCached>>

CpuCall ==
    /\ call = NoCall
    /\ \E parent \in CpuOutcomes, children \in Enumerations(CpuOutcomes) :
          call' = [fn |-> "get_aggregate_cpu_usage", parent |-> parent,
                   children |-> children,
                   result |-> get_aggregate_cpu_usage(parent, children)]
    /\ UNCHANGED <<poolVars, collector, registered, gauges, serviceCached>>

IdleCall ==
    /\ call = NoCall
    /\ \E o \in Observations :
          call' = [fn |-> "is_pool_idle", observed |-> o,
                   result |-> is_pool_idle(o)]
    /\ UNCHANGED <<poolVars, collector, registered, gauges, serviceCached>>

\* the caller has used what the call gave back
CallEnds ==
    /\ call # NoCall
    /\ call' = NoCall
    /\ UNCHANGED <<poolVars, collector, registered, gauges, serviceCached>>

MonitorInit == Init /\ \A j \in Jobs : fileExists[j]

MonitorNext == MemoryCall \/ CpuCall \/ IdleCall \/ CallEnds

MonitorSpec == MonitorInit /\ [][MonitorNext]_vars

\* ======================================================== metrics sampler
\* (src/core/memory_collector.py)  Every task that start_memory_collector
\* creates has a number; registered is the number of the task that
\* _memory_collector_task refers to, 0 for None.  A task is at one of its two
\* sleeps ("init_sleep", "sleep"), inside the try block of an iteration
\* ("sampling"), or it has ended with CancelledError ("cancelled").  Time is
\* counted in ticks of the sampler, timer is the countdown of the sleep.
Tasks == 1..MaxStarts

\* the tasks that were created and have not ended
LiveTasks == {t \in Tasks : collector[t].pc \notin {"none", "cancelled"}}

\* the number of the next task
NewTask == CHOOSE t \in Tasks : collector[t].pc = "none" /\
                                \A u \in Tasks : u < t => collector[u].pc # "none"

\* start_memory_collector(): with a task registered it warns and returns;
\* otherwise the task is created, registered, and runs to its first sleep
StartCollector ==
    /\ registered = 0 => \E t \in Tasks : collector[t].pc = "none"
    /\ IF registered # 0
       THEN UNCHANGED <<collector, registered>>
       ELSE /\ collector' = [collector EXCEPT ![NewTask] =
                                [NoTask EXCEPT !.pc = "init_sleep",
                                               !.timer = InitialWait]]
            /\ registered' = NewTask
    /\ UNCHANGED <<poolVars, call, gauges, serviceCached>>

\* get_process_service() is called for the first time: the service is cached
CreateService ==
    /\ ~serviceCached
    /\ serviceCached' = TRUE
    /\ UNCHANGED <<poolVars, call, collector, registered, gauges>>

Sleeping(t) == collector[t].pc \in {"init_sleep", "sleep"}

\* a task can run now: its sleep is over, it is cancelled, or it is inside
\* an iteration
Runnable(t) ==
    \/ collector[t].pc = "sampling"
    \/ Sleeping(t) /\ (collector[t].timer = 0 \/ collector[t].cancel)

\* one tick passes while the tasks sleep; a task that can run runs first
CollectorTick ==
    /\ \E t \in Tasks : Sleeping(t)
    /\ \A t \in Tasks : ~Runnable(t)
    /\ collector' = [t \in Tasks |->
                        IF Sleeping(t) THEN [collector[t] EXCEPT !.timer = @ - 1]
                        ELSE collector[t]]
    /\ UNCHANGED <<poolVars, call, registered, gauges, serviceCached>>

\* the sleep is over: the task enters the try block of the next iteration
WakeUp(t) ==
    /\ Sleeping(t) /\ collector[t].timer = 0 /\ ~collector[t].cancel
    /\ collector' = [collector EXCEPT ![t].pc = "sampling", ![t].timer = -1]
    /\ UNCHANGED <<poolVars, call, registered, gauges, serviceCached>>

\* the rest of the iteration when the try block ended with `how`
EndIteration(t, how) ==
    collector' = [collector EXCEPT ![t].pc = "sleep", ![t].timer = Interval,
                                   ![t].last = how,
                                   ![t].monitor = @ \/ serviceCached]

\* (mutant) an exception of the sample is not caught: the task ends
IterateUncaught(t) ==
    /\ collector[t].pc = "sampling"
    /\ IF ~serviceCached
       THEN EndIteration(t, "skipped") /\ UNCHANGED gauges
       ELSE \E parent \in RssOutcomes, children \in Enumerations(RssOutcomes) :
               LET r == get_aggregate_memory_usage(parent, children)
               IN  IF r.ok
                   THEN EndIteration(t, "published") /\ gauges' = <<r.value>>
                   ELSE /\ collector' = [collector EXCEPT ![t].pc = "failed",
                                                          ![t].last = "failed"]
                        /\ UNCHANGED gauges
    /\ UNCHANGED <<poolVars, call, registered, serviceCached>>

\* the try block of one iteration and the way to the sleep after it: without
\* a cached service nothing is collected; an exception of the sample is
\* caught and logged; a snapshot is published to the gauges
Iterate(t) ==
    /\ collector[t].pc = "sampling"
    /\ IF ~serviceCached
       THEN EndIteration(t, "skipped") /\ UNCHANGED gauges
       ELSE \E parent \in RssOutcomes, children \in Enumerations(RssOutcomes) :
               LET r == get_aggregate_memory_usage(parent, children)
               IN  IF r.ok
                   THEN EndIteration(t, "published") /\ gauges' = <<r.value>>
                   ELSE EndIteration(t, "failed") /\ UNCHANGED gauges
    /\ UNCHANGED <<poolVars, call, registered, serviceCached>>

\* stop_memory_collector(): with no task registered it returns; otherwise
\* _memory_collector_task.cancel(), then run_until_complete(wait_for(...)),
\* which runs the task to its end when the event loop is not running
\* (waited) and raises RuntimeError, logged, when it is; then the
\* reference is set to None
Cancel ==
    /\ IF registered = 0
       THEN UNCHANGED <<collector, registered>>
       ELSE /\ \E waited \in {FALSE, Sleeping(registered)} :
                  collector' = [collector EXCEPT
                      ![registered].cancel = TRUE,
                      ![registered].pc = IF waited THEN "cancelled" ELSE @]
            /\ registered' = 0
    /\ UNCHANGED <<poolVars, call, gauges, serviceCached>>

\* (mutant) the handler of the loop swallows the cancellation
DeliverCancelSwallowed(t) ==
    /\ Sleeping(t) /\ collector[t].cancel
    /\ collector' = [collector EXCEPT ![t].pc = "sampling", ![t].timer = -1,
                                      ![t].cancel = FALSE]
    /\ UNCHANGED <<poolVars, call, registered, gauges, serviceCached>>

\* the event loop resumes the cancelled task: CancelledError is raised at the
\* await of the sleep, outside the try block, and ends the task (timer keeps
\* what was left of the sleep)
DeliverCancel(t) ==
    /\ Sleeping(t) /\ collector[t].cancel
    /\ collector' = [collector EXCEPT ![t].pc = "cancelled"]
    /\ UNCHANGED <<poolVars, call, registered, gauges, serviceCached>>

CollectorInit ==
    /\ PoolInit /\ \A j \in Jobs : fileExists[j]
    /\ call = NoCall /\ collector = [t \in Tasks |-> NoTask] /\ registered = 0
    /\ gauges = <<>>
    /\ serviceCached = FALSE

CollectorNext ==
    \/ StartCollector \/ CreateService \/ CollectorTick \/ Cancel
    \/ \E t \in Tasks : WakeUp(t) \/ Iterate(t) \/ DeliverCancel(t)

CollectorSpec == CollectorInit /\ [][CollectorNext]_vars

\* the event loop runs a task that can run, and time passes
CollectorFairness ==
    /\ WF_vars(CollectorTick)
    /\ \A t \in Tasks :
          WF_vars(WakeUp(t)) /\ WF_vars(Iterate(t)) /\ WF_vars(DeliverCancel(t))

LiveCollectorSpec == CollectorSpec /\ CollectorFairness

\* ------------------------------------------------------------------ claims
Outcome(j) == sub[j].outcomes[1]
Ended(j) == sub[j].pc = "done"
OuterTimedOut(j) == Ended(j) /\ Outcome(j) = HTTPException(504, "outer")

\* C1: every process_audio call ends with exactly one outcome: a response
\* built from the worker's success dict of that job, or one typed failure;
\* a call that has ended has an outcome, a call that has not has none.
C1_ExactlyOneOutcome ==
    \A j \in Jobs :
        /\ Len(sub[j].outcomes) <= 1
        /\ Ended(j) <=> Len(sub[j].outcomes) = 1
        /\ Ended(j) =>
              \/ Outcome(j) = Response(j)
              \/ Outcome(j) = AudioFormatError
              \/ /\ Outcome(j).kind = "HTTPException"
                 /\ Outcome(j).status \in {500, 504}

C1_Witness ==
    \E j, k \in Jobs :
        /\ Ended(j) /\ Outcome(j) = Response(j)
        /\ Ended(k) /\ Outcome(k).kind = "HTTPException"
        /\ gen = 1

Messages ==
    {outq[i] : i \in DOMAIN outq}
        \cup {ready[j] : j \in {k \in Jobs : ready[k] # NotReady}}
        \cup {workers[s].ret : s \in {t \in Slots : workers[t].pc = "finally"}}

\* C3: transcribe_in_process is total: whatever the recognition call does and
\* wherever the inner deadline fires, the function returns a result
\* dictionary and no exception leaves it.
C3_TotalFunction == \A m \in Messages : m.ok

C3_Witness ==
    \E j \in Jobs :
        /\ ready[j] = Raised("TimeoutError")
        /\ Ended(j) /\ Outcome(j) = HTTPException(500, "parent")

SuccessKeys == {"success", "data"}
DataKeys == {"segments", "full_text", "detected_language", "speaker_count"}
FailureKeys == {"success", "error", "error_type", "traceback"}

IsSuccess(r) ==
    /\ DOMAIN r = SuccessKeys
    /\ r.success = TRUE
    /\ DOMAIN r.data = DataKeys

IsFailure(r) ==
    /\ DOMAIN r = FailureKeys
    /\ r.success = FALSE

\* C4: every dictionary the worker entry point returns populates exactly one
\* variant: success with the data and no error field, or failure with
\* error, error_type and traceback and no data.
C4_OneVariant ==
    \A m \in Messages : m.ok => (IsSuccess(m.value) \/ IsFailure(m.value))

C4_Witness ==
    \E j, k \in Jobs :
        /\ ready[j].ok /\ IsSuccess(ready[j].value)
        /\ ready[k].ok /\ IsFailure(ready[k].value)

\* the deadline fired while worker s was in the recognition call of its job
CutByDeadline(s) ==
    /\ workers[s].job # NoJob
    /\ workers[s].fired = workers[s].job \/ workers[s].swallowed

\* C5: if the recognition call exceeds the inner deadline the
\* result is a failure of type TimeoutError, and the worker process exits
\* afterwards: it never runs another job.
C5_TimeoutThenExit ==
    \A s \in Slots :
        /\ (workers[s].pc = "finally" /\ CutByDeadline(s))
              => workers[s].ret = Returned(FailureResult("TimeoutError"))
        /\ workers[s].fired # NoJob => workers[s].job \in {NoJob, workers[s].fired}

C5_Witness ==
    \E s \in Slots :
        /\ workers[s].fired # NoJob
        /\ ready[workers[s].fired] = Returned(FailureResult("TimeoutError"))
        /\ workers[s].job \notin {NoJob, workers[s].fired}

\* the outer deadline of job j expires in this step
OuterExpires(j) == sub[j].pc = "sleep" /\ OuterTimedOut(j)'

\* C6: when the outer deadline of a submit expires the submit fails with
\* Timeout and touches nothing in the pool: no worker is killed, the job is
\* not queued again (a job is queued only by its own submit), and its
\* pending entry stays until its result arrives or the pool is replaced.
C6_Abandoned ==
    /\ [][\A j \in Jobs : OuterExpires(j) =>
              UNCHANGED <<cache, taskq, outq, workers, poolState, ready>>]_vars
    /\ [][\A j \in Jobs : (InQueue(j)' /\ ~InQueue(j)) => sub[j].pc = "new"]_vars
    /\ [][\A j \in cache : j \notin cache' =>
              \/ outq # <<>> /\ Head(outq).job = j
              \/ gen' # gen]_vars

C6_Witness ==
    \E j \in Jobs, s \in Slots :
        /\ OuterTimedOut(j)
        /\ j \in cache
        /\ Alive(s) /\ workers[s].job = j

\* C7: a submit whose outer deadline expires raises Timeout within
\* outer_deadline + poll_interval of real time: it was due and not run for
\* at most one tick.
C7_BoundedLateness ==
    \A j \in Jobs : OuterTimedOut(j) => sub[j].late <= 1

C7_Witness ==
    \E j \in Jobs : OuterTimedOut(j) /\ sub[j].late > 1 /\ loop = "free"

\* worker s executes job j at a place where SIGALRM interrupts it
Interruptible(s, j) ==
    Alive(s) /\ workers[s].job = j /\ workers[s].pc # "native"

\* C8: for every job the inner deadline fires before the outer
\* one: the outer deadline never expires on a job that a worker executes
\* with the inner deadline armed and deliverable.
C8_InnerFirst ==
    \A j \in Jobs, s \in Slots : ~(OuterTimedOut(j) /\ Interruptible(s, j))

C8_Witness ==
    \E j \in Jobs, s \in Slots :
        /\ OuterTimedOut(j) /\ Interruptible(s, j) /\ sub[j].queued
        /\ workers[s].alarm > 0

\* the next job to be submitted
NextNew(k) == sub[k].pc = "new" /\ (k > 1 => sub[k - 1].pc # "new")

\* C9: a submit that waits for its result never holds the event loop: the
\* loop is free or held by restart/shutdown, and on the free loop every
\* other task that is ready to run (a new submit, a submit whose sleep is
\* over) can take its step.
C9_NonBlocking ==
    \A j \in Jobs : sub[j].pc = "sleep" =>
        /\ loop \in {"free", "shutdown"} \cup RestartWaits
        /\ loop = "free" =>
              \A k \in Jobs \ {j} :
                  /\ NextNew(k) => ENABLED Submit(k)
                  /\ (sub[k].pc = "sleep" /\ sub[k].wake = 0) => ENABLED Poll(k)

C9_Witness ==
    \E j, k \in Jobs :
        /\ j < k
        /\ sub[j].pc = "sleep" /\ sub[j].elapsed > 0
        /\ Ended(k) /\ Outcome(k) = Response(k)

\* C10: a worker process never starts more than the quota of jobs; one that
\* completed the quota has exited; a process that appears in a slot is new:
\* it has completed no job and its identity differs from that of every
\* process there was.
C10_Recycling ==
    /\ [](\A s \in Slots :
            /\ workers[s].started <= MaxTasksPerChild
            /\ workers[s].done >= MaxTasksPerChild => ~Alive(s))
    /\ [][\A s \in Slots : workers'[s].pid # workers[s].pid =>
              /\ workers'[s].done = 0 /\ workers'[s].started = 0
              /\ \A t \in Slots : workers'[s].pid # workers[t].pid
              /\ workers'[s].pid >= nextPid]_vars

C10_Witness ==
    \E s \in Slots :
        /\ workers[s].pid = PoolSize + 1 /\ workers[s].done = 0
        /\ kills = 0 /\ gen = 0
        /\ \A j \in Jobs : ready[j] # NotReady /\ ready[j].ok

\* something other than the load disturbed the pool: a worker was killed
\* from outside or hangs in native code, the pool was shut down or restarted
Disturbed ==
    \/ kills > 0 \/ gen > 0 \/ shutdowns > 0 \/ loop # "free"
    \/ \E s \in Slots : workers[s].pc = "native"

\* the caller of job j was answered from the dictionary its worker returned
FromWorker(j) ==
    Outcome(j) \in {Response(j), HTTPException(504, "worker"),
                    HTTPException(500, "worker")}

\* C11: with more jobs than workers every dispatched job is answered with
\* the result of its worker (no job is lost or given up because it had to
\* wait for a free worker), and at no moment are more than PoolSize worker
\* processes alive, also during recycling and restart.
C11_PoolOfN ==
    /\ Cardinality(procs) <= PoolSize
    /\ \A j \in Jobs :
          (Ended(j) /\ Outcome(j) # AudioFormatError /\ ~Disturbed)
              => FromWorker(j)

C11_Witness ==
    \E j \in Jobs :
        /\ OuterTimedOut(j) /\ ~Disturbed
        /\ sub[j].queued
        /\ ready[j].ok /\ IsSuccess(ready[j].value)

\* job j is in flight in the current pool: queued for dispatch, executed by
\* a live worker, or its result is on the way back
InFlight(j) ==
    \/ InQueue(j)
    \/ \E s \in Slots : Alive(s) /\ workers[s].job = j
    \/ \E i \in DOMAIN outq : outq[i].job = j

\* C12: is_pool_idle is true only if nothing is pending, queued or in
\* transit and no worker is computing; it is false while any job is in
\* flight, also a job that its caller gave up at the outer deadline and
\* whose worker waits quietly for the network; it is true when no job is in
\* flight, no result is pending and no worker computes.
C12_IdleMeansNoWork ==
    /\ IsPoolIdle => /\ cache = {} /\ taskq = <<>> /\ outq = <<>>
                     /\ \A s \in Slots : ~Hot(s)
    /\ (\E j \in Jobs : InFlight(j)) => ~IsPoolIdle
    /\ ((\A j \in Jobs : ~InFlight(j) /\ j \notin cache)
            /\ \A s \in Slots : ~Hot(s)) => IsPoolIdle

C12_Witness ==
    \E j \in Jobs, s \in Slots :
        /\ OuterTimedOut(j)
        /\ Alive(s) /\ workers[s].job = j /\ workers[s].pc = "call"
        /\ taskq = <<>> /\ outq = <<>>
        /\ ~IsPoolIdle

\* the process_audio call of job j takes its first step with an input file
Submitted(j) == sub[j].pc = "new" /\ sub'[j].pc # "new" /\ fileExists[j]

\* C13: from the moment shutdown starts the pool is closed; on a pool that
\* is not running no job is added to the pending set or to the task queue,
\* a submit ends at once with HTTP 500 (Pool not running) and leaves the
\* pending set unchanged, and a worker gets a job from the task queue only.
C13_ClosedRejects ==
    /\ [](loop = "shutdown" => poolState # "RUN")
    /\ [][poolState # "RUN" =>
             /\ cache' \subseteq cache
             /\ \A j \in Jobs : InQueue(j)' => InQueue(j)
             /\ \A j \in Jobs : Submitted(j) =>
                   /\ Ended(j)' /\ Outcome(j)' = HTTPException(500, "parent")
                   /\ UNCHANGED <<cache, taskq, workers>>]_vars
    /\ [][\A s \in Slots : workers'[s].job \notin {NoJob, workers[s].job} =>
             taskq # <<>> /\ workers'[s].job = Head(taskq)]_vars

C13_Witness ==
    \E j \in Jobs :
        /\ poolState # "RUN" /\ shutdowns = 1 /\ gen = 0
        /\ Ended(j) /\ Outcome(j) = HTTPException(500, "parent")
        /\ ready[j] = NotReady /\ j \notin cache

\* shutdown() returns in this step
ShutdownReturns == loop = "shutdown" /\ loop' = "free"

C15_ShutdownBounded ==
    /\ [](loop = "shutdown" =>
            /\ opTimer \in 0..ShutdownTimeout
            /\ opTimer = 0 => ~ENABLED Tick)
    /\ (loop = "shutdown") ~> (loop = "free")

\* shutdown returned although the killed worker's entry is still pending
C15_Witness ==
    /\ shutdowns = 1 /\ loop = "free" /\ poolState = "TERMINATE"
    /\ kills = 1 /\ cache # {} /\ gen = 0

\* C16: closed is one-way: once shutdown() has been called on the
\* coordinator, no later operation puts it back into a state where it
\* accepts jobs.
C16_ClosedIsFinal == shutdowns > 0 => poolState # "RUN"

\* after shutdown() a restart_pool() made a new pool, which took a job
C16_Witness ==
    /\ shutdowns = 1 /\ gen = 1 /\ poolState = "RUN"
    /\ \E j \in Jobs, s \in Slots : j \in cache /\ workers[s].job = j

\* the wait loop of restart_pool ends in this step
RestartWaitEnds == loop \in RestartWaits /\ loop' = "shutdown"

\* restart_pool returns True in this step
RestartReturns == loop = "shutdown" /\ restarting /\ loop' = "free"

\* C17: restart_pool waits for is_pool_idle for at most wait_timeout and
\* goes on to the shutdown when the pool is idle or the bound is reached;
\* from an idle pool the shutdown finds nothing pending (the orderly path);
\* it always returns, and then self.pool is a new running pool of PoolSize
\* fresh workers with nothing pending, and no process of the old pool is
\* alive.
C17_Restart ==
    /\ [](loop \in RestartWaits =>
            /\ opTimer \in 0..RestartWait
            /\ opTimer = 0 => ~ENABLED Tick)
    /\ [][RestartWaitEnds =>
             /\ IsPoolIdle \/ opTimer = 0
             /\ IsPoolIdle => cache' = {}
             /\ restarting' /\ poolState' # "RUN"]_vars
    /\ [][RestartReturns =>
             /\ poolState' = "RUN" /\ gen' = gen + 1
             /\ cache' = {} /\ taskq' = <<>>
             /\ Cardinality(procs') = PoolSize /\ procs' \cap procs = {}
             /\ \A s \in Slots :
                   /\ workers'[s] = FreshWorker(workers'[s].pid)
                   /\ workers'[s].pid \in procs']_vars
    /\ (loop \in RestartWaits) ~> (loop = "free" /\ poolState = "RUN")

\* a forced restart (the old worker hung in its job) and a job that the new
\* pool accepted
C17_Witness ==
    /\ gen = 1 /\ shutdowns = 0 /\ poolState = "RUN"
    /\ \E j, k \in Jobs, s \in Slots :
          /\ k \notin cache /\ sub[k].pc = "sleep" /\ ready[k] = NotReady
          /\ j \in cache /\ workers[s].job = j

\* C18: every entry of the pending map belongs to a job that is on its way
\* to a worker, executed by a live worker, or on its way back - also after
\* a worker died in a job, after an outer timeout and after a forced
\* shutdown or restart.
C18_PendingIsDispatched == \A j \in cache : InFlight(j)

\* the worker of job j was killed and replaced: the pool runs with an idle
\* worker and the entry of j is still pending
C18_Witness ==
    /\ kills = 1 /\ poolState = "RUN" /\ loop = "free"
    /\ \A s \in Slots : Alive(s) /\ workers[s].pc = "idle"
    /\ \E j \in cache : ~InFlight(j) /\ OuterTimedOut(j)

\* the state of a worker slot in the terms of the slot state machine
Phase(w) ==
    CASE w.pc = "idle" -> "Idle"
      [] w.pc = "retired" -> "Retired"
      [] w.pc = "dead" -> "Dead"
      [] OTHER -> "Busy"

\* the moves of a slot: Idle -> Busy -> {Idle | Dead}, retirement at the
\* quota when a job ends, a fresh Idle process in place of a Dead or
\* Retired one
SlotMoves ==
    {<<"Idle", "Busy">>, <<"Busy", "Idle">>, <<"Busy", "Dead">>,
     <<"Busy", "Retired">>, <<"Retired", "Idle">>, <<"Dead", "Idle">>}

\* C19: a worker slot only makes the moves of the slot state machine
\* (outside the step in which a shutdown or restart ends the whole pool);
\* no worker process is spawned in a pool that is not running; and while
\* the pool runs a dead or retired worker is eventually replaced.
C19_SlotStateMachine ==
    /\ [][~ShutdownReturns => \A s \in Slots :
             \/ Phase(workers'[s]) = Phase(workers[s])
                   /\ workers'[s].pid = workers[s].pid
             \/ <<Phase(workers[s]), Phase(workers'[s])>> \in SlotMoves]_vars
    /\ [][(poolState # "RUN" /\ ~ShutdownReturns) => procs' \subseteq procs]_vars
    /\ \A s \in Slots :
          (~Alive(s) /\ poolState = "RUN") ~> (Alive(s) \/ poolState # "RUN")

\* a worker died while it was idle: nobody killed it, no pool was ended
C19_Witness ==
    /\ kills = 0 /\ shutdowns = 0 /\ gen = 0 /\ loop = "free"
    /\ \E s \in Slots : workers[s].pc = "dead"

\* the live workers that execute job j
Executing(j) == {s \in Slots : Alive(s) /\ workers[s].job = j}

\* C20: a job is executed at most once and by one worker: it is started at
\* most once over all worker processes, it is never queued and executed at
\* the same time, it enters the task queue only in the first step of its
\* own submit (never again after it failed, timed out or was given up), and
\* a worker takes a job only when it is idle, from the head of the queue.
C20_AtMostOnce ==
    /\ [](\A j \in Jobs :
            /\ runs[j] <= 1
            /\ Cardinality(Executing(j)) + (IF InQueue(j) THEN 1 ELSE 0) <= 1
            /\ Executing(j) # {} => runs[j] = 1
            /\ Ended(j) /\ InQueue(j) => runs[j] = 0)
    /\ [][\A j \in Jobs :
             (InQueue(j)' /\ ~InQueue(j)) => sub[j].pc = "new" /\ runs[j] = 0]_vars
    /\ [][\A s \in Slots : workers'[s].job \notin {NoJob, workers[s].job} =>
             /\ workers[s].pc = "idle" /\ workers[s].job = NoJob
             /\ taskq # <<>> /\ workers'[s].job = Head(taskq)
             /\ taskq' = Tail(taskq)]_vars

\* the worker of job j was killed in the job, the caller gave up, the
\* replacement is idle and the job has not been started again
C20_Witness ==
    /\ kills = 1 /\ poolState = "RUN" /\ taskq = <<>>
    /\ \A s \in Slots : Alive(s) /\ workers[s].pc = "idle"
    /\ \E j \in Jobs : OuterTimedOut(j) /\ ready[j] = NotReady /\ runs[j] = 1

\* C21: no operation of the coordinator blocks the event-loop thread while
\* it waits: a submit whose sleep is over is never kept from its next poll
\* while time passes.
C21_NoBlockingWait == \A j \in Jobs : sub[j].late = 0

\* shutdown holds the loop and a poll that was due has waited a tick
C21_Witness ==
    \E j \in Jobs :
        /\ loop = "shutdown" /\ ~restarting
        /\ sub[j].pc = "sleep" /\ sub[j].wake = 0 /\ sub[j].late > 0

\* the status with which the process_audio call of job j ended
Status(j) == Outcome(j).status

C23_FileDeleted ==
    /\ \A j \in Jobs : Ended(j) => ~fileExists[j]
    /\ \A s \in Slots :
          (workers[s].pc = "finally" /\ workers[s].ret.ok)
              => ~fileExists[workers[s].job]
    /\ \A j \in Jobs : ready[j].ok => ~fileExists[j]

\* a worker hands back the timeout dictionary of a job whose file it has not
\* deleted, while the submit of the job is still polling
C23_Witness ==
    \E j \in Jobs :
        /\ ready[j] = Returned(FailureResult("TimeoutError"))
        /\ sub[j].pc = "sleep"
        /\ fileExists[j]

\* C28: a submit whose input file does not exist raises AudioFormatError
\* before dispatching: the pending set, the task queue, the results and every
\* worker (its task count included) are unchanged, and the file is not created
C28_MissingFile ==
    [][\A j \in Jobs :
          (sub[j].pc = "new" /\ sub'[j].pc # "new" /\ ~fileExists[j]) =>
              /\ sub'[j].pc = "done"
              /\ sub'[j].outcomes = <<AudioFormatError>>
              /\ UNCHANGED <<cache, taskq, outq, ready, workers, procs,
                             poolState, fileExists>>]_vars

\* a submit without input file has ended while an earlier job is pending,
\* and the job without file was never started by a worker
C28_Witness ==
    \E j, k \in Jobs :
        /\ Ended(j) /\ Outcome(j) = AudioFormatError
        /\ runs[j] = 0 /\ j \notin cache
        /\ k \in cache /\ sub[k].pc = "sleep"

\* restart_if_idle went into restart_pool in this step
RestartIfIdleRestarts == loop = "free" /\ loop' = "restart_idle"

\* C29: restart_if_idle restarts the pool only if is_pool_idle() holds when it
\* is called, and the restart it starts finds nothing pending; called on a
\* busy pool it changes nothing (no step of it changes any variable)
C29_RestartIfIdle ==
    /\ [][RestartIfIdleRestarts => IsPoolIdle]_vars
    /\ [](loop = "restart_idle" => (IsPoolIdle /\ cache = {} /\ taskq = <<>>))
    /\ []((loop = "free" /\ ~IsPoolIdle) => ~ENABLED <<RestartIfIdleCall>>_vars)
    /\ []((loop = "free" /\ IsPoolIdle /\ gen < MaxRestarts)
             => ENABLED <<RestartIfIdleCall>>_vars)

\* restart_if_idle has started a restart of a pool that had worked: a job
\* was run and its submit ended before the call
C29_Witness ==
    /\ loop = "restart_idle"
    /\ \E j \in Jobs : Ended(j) /\ runs[j] > 0

\* the monitor was asked for a snapshot
SnapshotCall == call.fn \in {"get_aggregate_memory_usage", "get_aggregate_cpu_usage"}

\* the sum of the answers of the workers that answered their query
RECURSIVE Total(_)
Total(ws) == IF ws = <<>> THEN 0
             ELSE (IF Head(ws).ok THEN Head(ws).value ELSE 0) + Total(Tail(ws))

\* the sum of the workers' values in a snapshot
WorkersSum(snapshot) ==
    IF "workers_rss_bytes" \in DOMAIN snapshot
    THEN snapshot.workers_rss_bytes ELSE snapshot.workers_cpu_percent

\* C24: get_aggregate_memory_usage and get_aggregate_cpu_usage never raise:
\* a worker whose query fails because it has exited is skipped and the other
\* workers are summed, and when the query of the parent fails, with whatever
\* error, the all-zero snapshot is returned and the failure is logged
C24_NeverRaises ==
    SnapshotCall =>
        /\ call.result.ok
        /\ (call.parent.ok /\ call.children.ok) =>
              WorkersSum(call.result.value)
                  = Total(get_worker_processes(call.children).value)
        /\ ~call.parent.ok =>
              /\ call.result.value \in {ZeroMemory, ZeroCpu}
              /\ call.result.log = <<"error">>

\* the query of the parent failed with an error that is not one of the two
\* psutil errors, and the call raised it to its caller
C24_Witness ==
    /\ SnapshotCall
    /\ call.parent = Raised("OSError")
    /\ call.result = Throws("OSError", <<>>)

Remaining(children) ==
    IF children.ok
    THEN Returned(SelectSeq(children.value,
                            LAMBDA c : c.ok \/ c.value \notin PsutilErrors))
    ELSE children

\* a check of is_pool_idle raises an exception that no inner handler takes
Unexpected(o) ==
    \/ ~o.cache.ok \/ ~o.taskqueue.ok
    \/ o.inqueue = Raised("Exception") \/ o.outqueue = Raised("Exception")
    \/ o.children = Raised("OSError")
    \/ /\ o.children.ok
       /\ \E i \in DOMAIN o.children.value :
             o.children.value[i] = Raised("OSError")

\* C30: is_pool_idle always returns a boolean; if one of its checks raises an
\* unexpected exception it returns False; it returns True only if no check
\* saw work and no worker that answered used more than 1 % CPU; a worker that
\* disappeared during the CPU check changes nothing in the answer
C30_Conservative ==
    call.fn = "is_pool_idle" =>
        LET o == call.observed
            r == call.result
        IN  /\ r.ok /\ r.value \in BOOLEAN
            /\ Unexpected(o) => r.value = FALSE
            /\ r.value =>
                  /\ o.cache = Returned(FALSE) /\ o.taskqueue = Returned(FALSE)
                  /\ o.inqueue # Returned(TRUE) /\ o.outqueue # Returned(TRUE)
                  /\ o.children.ok =>
                        \A i \in DOMAIN o.children.value :
                            LET c == o.children.value[i]
                            IN  (c.ok /\ c # NotRunning) => c.value <= 1
            /\ r.value = is_pool_idle([o EXCEPT !.children = Remaining(@)]).value

\* the pool is reported idle although one worker disappeared during the CPU
\* check, and reported busy after an unexpected exception of the last check
C30_Witness ==
    /\ call.fn = "is_pool_idle"
    /\ \/ /\ call.observed.children
                 = Returned(<<Raised("NoSuchProcess"), Returned(1)>>)
          /\ call.result.value = TRUE
       \/ /\ call.observed.outqueue = Raised("Exception")
          /\ call.observed.inqueue = Returned(FALSE)
          /\ call.result = Gives(FALSE, <<"error">>)

\* an iteration of the sampler task t ends in this step
IterationEnds(t) == collector[t].pc = "sampling" /\ collector'[t].pc # "sampling"

\* C26: an iteration of the sampler without a cached service collects and
\* publishes nothing and is no error; an iteration whose sample raises
\* publishes nothing and is no end of the loop; after every iteration the
\* task sleeps for the interval and then starts the next iteration; the
\* task ends only by cancellation
C26_KeepsRunning ==
    /\ [][\A t \in Tasks : IterationEnds(t) =>
             /\ collector'[t].pc = "sleep" /\ collector'[t].timer = Interval
             /\ ~serviceCached =>
                   /\ collector'[t].last = "skipped"
                   /\ gauges' = gauges /\ ~collector'[t].monitor
             /\ collector'[t].last = "failed" => gauges' = gauges
             /\ gauges' # gauges => collector'[t].last = "published"]_vars
    /\ [](\A t \in Tasks : collector[t].pc \in
             {"none", "init_sleep", "sleep", "sampling", "cancelled"})
    /\ [](\A t \in Tasks : collector[t].pc = "cancelled" => collector[t].cancel)
    /\ [][\A t \in Tasks :
             (collector'[t].pc = "cancelled" /\ collector[t].pc # "cancelled")
                 => Sleeping(t) /\ collector'[t].cancel]_vars
    /\ \A t \in Tasks : \A how \in {"skipped", "failed", "published"} :
          (collector[t].pc = "sleep" /\ collector[t].last = how)
              ~> (collector[t].pc = "sampling" \/ collector[t].cancel)

\* after an iteration without service and after a failed sample the task is
\* in its next iteration
C26_Witness ==
    \E t \in Tasks :
        /\ collector[t].pc = "sampling" /\ ~collector[t].cancel
        /\ \/ collector[t].last = "skipped" /\ serviceCached
           \/ collector[t].last = "failed" /\ gauges # <<>>

\* C27: a cancelled sampler task starts no further iteration and waits out
\* no sleep: it ends with the cancellation at its next sleep (at once if it
\* is sleeping), and the request is never dropped
C27_Cancellation ==
    /\ [](\A t \in Tasks : (collector[t].cancel /\ Sleeping(t)) =>
             /\ ~ENABLED CollectorTick /\ ~ENABLED WakeUp(t)
             /\ ENABLED DeliverCancel(t))
    /\ [][\A t \in Tasks : collector[t].cancel =>
             /\ collector'[t].cancel
             /\ collector'[t].pc = "sampling" => collector[t].pc = "sampling"
             /\ collector'[t].pc # collector[t].pc =>
                   \/ collector[t].pc = "sampling" /\ collector'[t].pc = "sleep"
                   \/ Sleeping(t) /\ collector'[t].pc = "cancelled"
                         /\ gauges' = gauges
                         /\ collector'[t].last = collector[t].last]_vars
    /\ \A t \in Tasks : collector[t].cancel ~> (collector[t].pc = "cancelled")

\* the task was cancelled in the sleep after a published sample and ended
\* with part of the interval left
C27_Witness ==
    \E t \in Tasks :
        /\ collector[t].pc = "cancelled" /\ collector[t].timer > 0
        /\ collector[t].last = "published"

\* a task is created in this step
TaskCreated == \E t \in Tasks : collector[t].pc = "none" /\ collector'[t].pc # "none"

\* C31: at most one sampler task exists (created and not ended) at any time;
\* start_memory_collector with a task registered changes nothing and a task
\* is created only when none is registered; stop_memory_collector with none
\* registered changes nothing; the registered task is none or the task that
\* was created last, which is not cancelled
C31_OneCollector ==
    /\ [](Cardinality(LiveTasks) <= 1)
    /\ [](registered # 0 => ~ENABLED <<StartCollector>>_vars)
    /\ [](registered = 0 => ~ENABLED <<Cancel>>_vars)
    /\ [][TaskCreated => registered = 0 /\ registered' # 0
                            /\ collector'[registered'].pc = "init_sleep"]_vars
    /\ [](registered # 0 =>
             /\ registered \in LiveTasks /\ ~collector[registered].cancel
             /\ \A t \in Tasks : t > registered => collector[t].pc = "none")

\* stop_memory_collector was called on the running event loop and
\* start_memory_collector after it: the cancelled task has not ended yet
\* and the new task exists
C31_Witness ==
    /\ registered = 2
    /\ collector[1].cancel /\ Sleeping(1)
    /\ Sleeping(2)

\* the submit of j polls a result that the pool it was dispatched to can no
\* longer give: that pool was terminated, or replaced by a forced restart
Orphaned(j) ==
    /\ sub[j].pc = "sleep" /\ ready[j] = NotReady
    /\ j \notin cache \/ poolState = "TERMINATE"

\* C32: a submit that is in flight when its pool is terminated by force (by
\* shutdown, or by the shutdown inside restart_pool) never gets a result: it
\* goes on polling and ends, and only with the Timeout of its outer deadline
C32_ForcedPath ==
    /\ [][\A j \in Jobs :
             /\ (sub[j].pc = "sleep" /\ j \in cache /\ ShutdownReturns
                    /\ ready[j] = NotReady) => Orphaned(j)'
             /\ Orphaned(j) =>
                   /\ ready'[j] = NotReady
                   /\ Orphaned(j)' \/ OuterTimedOut(j)']_vars
    /\ \A j \in Jobs : Orphaned(j) ~> OuterTimedOut(j)

\* a submit that was held up by the blocking operation has ended with the
\* outer Timeout, without a result, after the forced end of its pool
C32_Witness ==
    \E j \in Jobs :
        /\ OuterTimedOut(j) /\ ready[j] = NotReady
        /\ sub[j].late > 0
        /\ (gen = 1 /\ j \notin cache) \/ poolState = "TERMINATE"


\* C33: when the worker entry point has returned, no alarm is pending in the
\* worker: an idle worker has no armed alarm, so none fires between two jobs
C33_NoPendingAlarm ==
    \A s \in Slots :
        (Alive(s) /\ workers[s].pc = "idle") => workers[s].alarm = -1

\* a reused worker waits for its next task while the alarm armed for the job
\* it has finished is still counting down
C33_Witness ==
    \E s \in Slots :
        /\ Alive(s) /\ workers[s].pc = "idle"
        /\ workers[s].done > 0
        /\ workers[s].alarm >= 0

\* the recognition call of job j returned in its worker before the inner
\* deadline cut it, and the success dictionary of j was built
CompletedInTime(j) ==
    \/ ready[j].ok /\ IsSuccess(ready[j].value)
    \/ \E i \in DOMAIN outq :
          outq[i].job = j /\ outq[i].ok /\ IsSuccess(outq[i].value)
    \/ \E s \in Slots :
          /\ Alive(s) /\ workers[s].job = j /\ workers[s].pc = "finally"
          /\ workers[s].ret = Returned(SuccessResult(j))

\* C34: a job that only had to wait for a free worker is not given up by the
\* coordinator: on an undisturbed pool a job that was queued and whose call,
\* once started, completed within the inner deadline is answered with its
\* Success result, never with the Timeout of the outer deadline
C34_QueueWait ==
    \A j \in Jobs :
        (Ended(j) /\ ~Disturbed /\ sub[j].queued /\ CompletedInTime(j))
            => Outcome(j) = Response(j)

\* a job that waited in the task queue was given up at the outer deadline
\* while its worker, begun late, was returning the success dictionary
C34_Witness ==
    \E j \in Jobs, s \in Slots :
        /\ OuterTimedOut(j) /\ ~Disturbed
        /\ sub[j].queued
        /\ workers[s].job = j /\ workers[s].pc = "finally"
        /\ workers[s].ret = Returned(SuccessResult(j))


\* the submit of j gives up at the outer deadline in this step
OuterTimeoutRaised(j) == sub[j].pc = "sleep" /\ OuterTimedOut(j)'

\* C35: submit raises the outer Timeout only in a state where the result of
\* its job is not ready; a result that is ready before the deadline is
\* declared expired, also one that arrived in the last poll interval, is
\* returned
C35_ReadyWins ==
    [][\A j \in Jobs : OuterTimeoutRaised(j) => ready[j] = NotReady]_vars

\* the last sleep of a submit is over, the result of its job arrived during
\* that sleep, and the step the submit takes next declares the deadline
\* expired
C35_Witness ==
    \E j \in Jobs :
        /\ loop = "free"
        /\ sub[j].pc = "sleep" /\ sub[j].wake = 0 /\ sub[j].late = 0
        /\ sub[j].elapsed + 1 = OuterPolls
        /\ ready[j].ok /\ IsSuccess(ready[j].value)
        /\ ENABLED <<Poll(j)>>_vars


\* a worker can still read the input file of job j: the job waits in the
\* task queue, or a live worker is inside its recognition call
StillNeeded(j) ==
    \/ InQueue(j)
    \/ \E s \in Slots :
          Alive(s) /\ workers[s].job = j /\ workers[s].pc \in {"call", "native"}

\* the finally clause of process_audio removes the input file of j in this step
CoordinatorUnlinks(j) ==
    /\ sub[j].pc # "done" /\ sub'[j].pc = "done"
    /\ fileExists[j] /\ ~fileExists'[j]

\* C36: the coordinator removes the input file of a job only when no worker
\* can still be reading it: never while the job is still queued or its
\* recognition call is still running in a worker
C36_SafeCleanup ==
    [][\A j \in Jobs : CoordinatorUnlinks(j) => ~StillNeeded(j)]_vars

\* the submit of j has ended with the outer Timeout and removed the file
\* while a live worker is still inside the recognition call of j
C36_Witness ==
    \E j \in Jobs, s \in Slots :
        /\ OuterTimedOut(j) /\ ~fileExists[j]
        /\ Alive(s) /\ workers[s].job = j /\ workers[s].pc = "call"


\* every job of the behaviour was submitted and answered to its caller
AllAnswered == \A j \in Jobs : Ended(j)

\* C37: once every submitted job has been answered and nothing new is
\* submitted, the pool eventually reports idle again, also after a worker was
\* killed in the middle of a job or a job was given up at the outer deadline
C37_IdleAgain == AllAnswered ~> IsPoolIdle

\* all callers were answered and nothing is left to run, but the job of a
\* killed worker is still pending in the running pool, which is not idle
C37_Witness ==
    /\ AllAnswered /\ ~IsPoolIdle
    /\ poolState = "RUN" /\ loop = "free" /\ kills > 0
    /\ taskq = <<>> /\ outq = <<>>
    /\ \A s \in Slots : workers[s].pc = "idle" /\ workers[s].alarm = -1
    /\ \E j \in cache : ready[j] = NotReady


\* ------------------------------------------------------ reports of the pool
\* get_pool_stats(), when the monitor answers: the pending results, the live
\* worker processes, and the idle flag computed from these two numbers
get_pool_stats ==
    LET pending_tasks == Cardinality(cache)
        worker_count == Cardinality(procs)
    IN  [pool_size |-> PoolSize,
         active_workers |-> worker_count,
         pending_tasks |-> pending_tasks,
         is_idle |-> pending_tasks = 0 /\ worker_count = 0]

\* C38: the idle flag of get_pool_stats agrees with is_pool_idle in every
\* state, in particular on a running pool whose workers are all alive and
\* that has no pending work
C38_StatsAgree == get_pool_stats.is_idle <=> IsPoolIdle

\* a running pool that has answered a job, with all its workers alive and
\* waiting and nothing pending: is_pool_idle is true, the stats flag is false
C38_Witness ==
    /\ poolState = "RUN" /\ loop = "free"
    /\ \E j \in Jobs : Ended(j) /\ Outcome(j) = Response(j)
    /\ Cardinality(procs) = PoolSize
    /\ \A s \in Slots : workers[s].pc = "idle"
    /\ IsPoolIdle
    /\ ~get_pool_stats.is_idle


\* health_check(): the status is decided by self.pool being set, and self.pool
\* is set by the constructor and by restart_pool and never cleared
health_check ==
    LET pool == [state |-> poolState, gen |-> gen]
        None == [state |-> "none", gen |-> -1]
    IN  [service |-> "ProcessIsolatedTranscriptionService",
         pool_size |-> PoolSize,
         timeout |-> Timeout,
         status |-> IF pool # None THEN "healthy" ELSE "unhealthy"]

\* C39: health_check reports "healthy" only in states where the pool can
\* accept a job: not after shutdown has closed or terminated the pool
C39_HealthyMeansRunning ==
    health_check.status = "healthy" => poolState = "RUN"

\* shutdown has returned and left the pool closed or terminated, a job
\* submitted now is refused, and health_check still reports "healthy"
C39_Witness ==
    /\ loop = "free" /\ shutdowns > 0
    /\ poolState \in {"CLOSE", "TERMINATE"}
    /\ procs = {}
    /\ \E j \in Jobs : Ended(j) /\ Outcome(j) = HTTPException(500, "parent")
    /\ health_check.status = "healthy"


\* a worker hands a result to Pool's result queue in this step
ResultSent == Len(outq') > Len(outq)

\* C40: with several submits in flight each submit gets the outcome of its own
\* job: a result is sent by the worker that executed the job it is labelled
\* with, it is stored only in the result object of that job, a stored result
\* never changes, and a submit that answers from a worker result answers
\* from the stored result of its own job
C40_OwnResult ==
    /\ [][ResultSent =>
             LET e == outq'[Len(outq')]
             IN  /\ \E s \in Slots : Alive(s) /\ workers[s].job = e.job
                                        /\ workers'[s].job = NoJob
                 /\ (e.ok /\ IsSuccess(e.value)) => e.value = SuccessResult(e.job)]_vars
    /\ [][\A j \in Jobs : ready'[j] # ready[j] =>
             /\ ready[j] = NotReady
             /\ outq # <<>> /\ Head(outq).job = j
             /\ ready'[j] = [ok |-> Head(outq).ok, value |-> Head(outq).value]]_vars
    /\ [](\A j \in Jobs :
             /\ (ready[j].ok /\ IsSuccess(ready[j].value))
                   => ready[j].value = SuccessResult(j) /\ runs[j] = 1
             /\ (Ended(j) /\ FromWorker(j))
                   => ready[j] # NotReady /\ Outcome(j) = ProcessResult(ready[j])
             /\ (Ended(j) /\ Outcome(j).kind = "Response")
                   => Outcome(j) = Response(j))

\* two submits were in flight together; the later job was answered first,
\* with its own text, while the result of the earlier job, produced by a
\* worker process that has since been recycled, waits for its caller
C40_Witness ==
    \E j, k \in Jobs :
        /\ j < k
        /\ sub[j].pc = "sleep" /\ ready[j] = Returned(SuccessResult(j))
        /\ Ended(k) /\ Outcome(k) = Response(k)
        /\ \A s \in Slots : workers[s].pid > PoolSize

====
